---- MODULE Spec2Model ----
(***************************************************************************)
(* Apple Journal -> Day One converter (src/main.go).                       *)
(*                                                                         *)
(* Strings are modelled as sequences of tokens, paths as sequences of      *)
(* segments [stem, ext], identifiers (UUIDs) as fresh naturals.            *)
(***************************************************************************)
EXTENDS Naturals, Integers, Sequences, FiniteSets, TLC

VARIABLES
    pc,             \* position of main(): "start" .. "exited"; "call"/"ret" for a lone processEntryHTML call
    tempDir,        \* TRUE while the temporary extraction directory exists on disk
    tree,           \* the extracted tree under tempExtractDir
    entriesPath,    \* main.entriesPath
    resourcesPath,  \* main.resourcesPath
    journal,        \* dayOneJournal.Entries
    allMediaToCopy, \* main.allMediaToCopy
    uuid,           \* number of identifiers minted so far by uuid.New()
    walkLog,        \* history: what the walker visited and what processEntryHTML returned
    outZip,         \* the output archive: created?, Journal.json written, media copied
    marshals,       \* history: number of times the journal was serialized
    exitCode,       \* -1 while running, then the process exit code
    fatal,          \* which log.Fatalf ended the run ("" if none)
    readDirOk,      \* did os.ReadDir(tempExtractDir) succeed
    arg,            \* input of a lone processEntryHTML call
    ret             \* its result

vars == <<pc, tempDir, tree, entriesPath, resourcesPath, journal, allMediaToCopy,
          uuid, walkLog, outZip, marshals, exitCode, fatal, readDirOk, arg, ret>>

-----------------------------------------------------------------------------
(* Bounds of the model *)

MaxItems == 4       \* text blocks and image elements in one document
MaxFiles == 2       \* paths the walker visits under Entries
MaxTop == 2         \* items at the top level of the extracted archive

-----------------------------------------------------------------------------
(* Paths *)

Seg(s) == [stem |-> s, ext |-> ""]
FileName(s, e) == [stem |-> s, ext |-> e]

Front(s) == SubSeq(s, 1, Len(s) - 1)
Last(s) == s[Len(s)]

\* filepath.Clean(filepath.Join(dir, rel)) for a rooted dir
RECURSIVE CleanJoin(_, _)
CleanJoin(dir, rel) ==
    IF rel = <<>> THEN dir
    ELSE IF Head(rel) = Seg("..")
         THEN CleanJoin(IF Len(dir) > 0 THEN Front(dir) ELSE dir, Tail(rel))
    ELSE IF Head(rel) = Seg(".") THEN CleanJoin(dir, Tail(rel))
    ELSE CleanJoin(Append(dir, Head(rel)), Tail(rel))

\* strings.ToLower on a file extension
ToLower(e) ==
    CASE e = ".PNG" -> ".png"
      [] e = ".JPG" -> ".jpg"
      [] e = ".HTM" -> ".htm"
      [] e = ".HTML" -> ".html"
      [] OTHER -> e

\* strings.TrimPrefix(fileExt, ".")
TrimDot(e) ==
    CASE e = ".png" -> "png"
      [] e = ".jpg" -> "jpg"
      [] e = ".jpeg" -> "jpeg"
      [] e = ".gif" -> "gif"
      [] OTHER -> e

tempExtractDir == <<Seg("tmp")>>

-----------------------------------------------------------------------------
(* The extracted tree and the files in it *)

\* A tree is [top: names at the top level, inner: names inside the directory Root].
\* Entries, Resources and Root are directories, readme is a regular file.
TopNames == {"Entries", "Resources", "Root", "readme"}
Trees ==
    { tr \in [top : {s \in SUBSET TopNames : Cardinality(s) <= MaxTop},
              inner : SUBSET {"Entries", "Resources"}] :
        "Root" \notin tr.top => tr.inner = {} }

IsDirName(n) == n # "readme"

\* does the directory at the absolute path p exist in tree t
DirExists(t, p) ==
    \/ p = tempExtractDir
    \/ /\ Len(p) = 2 /\ p[1] = Seg("tmp")
       /\ \E n \in t.top : IsDirName(n) /\ p[2] = Seg(n)
    \/ /\ Len(p) = 3 /\ p[1] = Seg("tmp") /\ p[2] = Seg("Root") /\ "Root" \in t.top
       /\ \E n \in t.inner : p[3] = Seg(n)

\* The image files the archive ships in a Resources directory:
\* stem -> what the file system says about it.
FileStatus(stem) ==
    CASE stem = "a" -> "ok"             \* a.png
      [] stem = "b" -> "ok"             \* b.JPG
      [] stem = "c" -> "ok"             \* c.mov
      [] stem = "e" -> "unreadable"     \* e.jpeg: exists, cannot be read
      [] OTHER -> "missing"             \* d.gif, f.heic

\* os.Stat(p): "ok", "unreadable" or "missing"
Stat(t, p) ==
    IF Len(p) >= 2 /\ Last(Front(p)) = Seg("Resources") /\ DirExists(t, Front(p))
    THEN FileStatus(Last(p).stem)
    ELSE "missing"

-----------------------------------------------------------------------------
(* Text: a string is a sequence of tokens *)

Word(n) == [k |-> "txt", v |-> n]
Space == [k |-> "sp", v |-> 0]
NLNL == [k |-> "nl", v |-> 0]                  \* "\n\n"
Hash == [k |-> "h", v |-> 0]                   \* "# "
Placeholder(id) == [k |-> "ph", v |-> id]      \* "![](dayone-moment://<id>)"

IsSpace(tok) == tok.k \in {"sp", "nl"}

RECURSIVE TrimLeft(_)
TrimLeft(s) == IF s # <<>> /\ IsSpace(Head(s)) THEN TrimLeft(Tail(s)) ELSE s

RECURSIVE TrimRight(_)
TrimRight(s) == IF s # <<>> /\ IsSpace(Last(s)) THEN TrimRight(Front(s)) ELSE s

\* strings.TrimSpace
TrimSpace(s) == TrimRight(TrimLeft(s))

-----------------------------------------------------------------------------
(* Helper functions *)

\* newDayOneUUID: the identifier minted when n identifiers were minted before.
\* uuid.New() is random over 128 bits; the model mints fresh naturals 1, 2, ...
newDayOneUUID(n) == n + 1

\* calculateMD5: the fingerprint is the content of the file, named by its stem
calculateMD5(t, p) ==
    IF Stat(t, p) = "ok"
    THEN [err |-> FALSE, sum |-> Last(p).stem]
    ELSE [err |-> TRUE, sum |-> ""]

\* The dates time.Parse accepts under the layouts "January 2, 2006" and
\* "Jan 2, 2006", as the pieces between commas, and the RFC3339 form of
\* noon UTC on that day.
KnownDates == { <<"May 14", "2025">>, <<"Dec 12", "2023">> }
IsoDate(d) == IF d = <<"May 14", "2025">> THEN "2025-05-14T12:00:00Z"
              ELSE "2023-12-12T12:00:00Z"

\* parseAppleDate: dateStr is the header text as its pieces between commas
parseAppleDate(dateStr) ==
    LET rest == IF Len(dateStr) >= 2 THEN Tail(dateStr) ELSE dateStr
    IN  IF rest \in KnownDates
        THEN [err |-> FALSE, iso |-> IsoDate(rest)]
        ELSE [err |-> TRUE, iso |-> ""]

-----------------------------------------------------------------------------
(* processEntryHTML *)

EmptyMap == <<>>
Put(m, key, val) == [x \in DOMAIN m \cup {key} |-> IF x = key THEN val ELSE m[x]]

\* DayOneEntry{} and the results of a failed call
ZeroEntry ==
    [UUID |-> 0, CreationDate |-> "", ModifiedDate |-> "", Text |-> <<>>,
     Starred |-> FALSE, TimeZone |-> "", Photos |-> <<>>]
Failed(e, n) == [err |-> e, entry |-> ZeroEntry, media |-> EmptyMap, uuid |-> n]

\* markdownConverter.ConvertString on the accumulated fragments: the converter is
\* a library; each fragment carries the markdown it converts to and whether
\* the conversion fails.
RECURSIVE ConcatMd(_)
ConcatMd(cur) == IF cur = <<>> THEN <<>> ELSE Head(cur).md \o ConcatMd(Tail(cur))
ConvertString(cur) ==
    [err |-> \E i \in 1..Len(cur) : ~cur[i].convOk, md |-> ConcatMd(cur)]

\* convertAndAppendP, given currentPContent: the new bodyMarkdownBuilder
\* (currentPContent is reset on return)
convertAndAppendP(cur, body) ==
    IF Len(cur) > 0
    THEN LET r == ConvertString(cur)
         IN  IF r.err THEN body ELSE body \o TrimSpace(r.md) \o <<NLNL>>
    ELSE body

\* the extension test of the image callback
allowedExt_Any(fileExt) == TRUE
allowedExt(fileExt) == fileExt \in {".png", ".jpg", ".jpeg", ".gif"}

\* the image callback when calculateMD5 fails: only the identifier is spent
hashFailed(st, photoUUID) == [st EXCEPT !.uuid = photoUUID]

\* the callback of s.Find("... img.asset_image").Each on one image element
\* st = [Photos, mediaToCopy, body, uuid]
eachImage(img, st, htmlDir, t, creationDate) ==
    IF ~img.hasSrc \/ img.src = <<>> THEN st
    ELSE
    LET absImgSrc == CleanJoin(htmlDir, img.src)
        originalImageName == Last(absImgSrc)
        fileExt == ToLower(originalImageName.ext)
    IN  IF ~allowedExt(fileExt) THEN st
        ELSE IF Stat(t, absImgSrc) = "missing" THEN st
        ELSE
        LET photoUUID == newDayOneUUID(st.uuid)
            dayOnePhotoZipPath == [dir |-> "photos", id |-> photoUUID, ext |-> fileExt]
            md5Hash == calculateMD5(t, absImgSrc)
        IN  IF md5Hash.err THEN hashFailed(st, photoUUID)
            ELSE
            LET photo == [MD5 |-> md5Hash.sum, Type |-> TrimDot(fileExt),
                          Identifier |-> photoUUID, CreationDate |-> creationDate]
            IN  [Photos |-> Append(st.Photos, photo),
                 mediaToCopy |-> Put(st.mediaToCopy, absImgSrc, dayOnePhotoZipPath),
                 body |-> st.body \o <<Placeholder(photoUUID), NLNL>>,
                 uuid |-> photoUUID]

RECURSIVE eachImage_StopAtFailure(_, _, _, _, _)
RECURSIVE eachGridImage(_, _, _, _, _)
\* a failed image ends the loop over the grid
eachImage_StopAtFailure(imgs, st, htmlDir, t, creationDate) ==
    IF imgs = <<>> THEN st
    ELSE LET st1 == eachImage(Head(imgs), st, htmlDir, t, creationDate)
         IN  IF Len(st1.Photos) = Len(st.Photos) THEN st1
             ELSE eachGridImage(Tail(imgs), st1, htmlDir, t, creationDate)
\* the loop over the images of one asset grid
eachGridImage(imgs, st, htmlDir, t, creationDate) ==
    IF imgs = <<>> THEN st
    ELSE eachGridImage(Tail(imgs), eachImage(Head(imgs), st, htmlDir, t, creationDate),
                       htmlDir, t, creationDate)

\* s.Find(sel).Each(...): write each fragment found and flush it
RECURSIVE eachFragment(_, _)
eachFragment(frags, body) ==
    IF frags = <<>> THEN body
    ELSE eachFragment(Tail(frags), convertAndAppendP(<<Head(frags)>>, body))

\* the callback of doc.Find("div.pageContainer").Children().Each on one child
eachChild(s, st, htmlDir, t, creationDate) ==
    IF s.kind = "pageHeader" THEN st
    ELSE IF s.kind = "title" THEN st
    ELSE IF s.kind = "assetGrid"
    THEN eachGridImage(s.imgs, [st EXCEPT !.body = convertAndAppendP(<<>>, st.body)],
                       htmlDir, t, creationDate)
    ELSE IF s.kind \in {"p", "bodyText"}
    THEN [st EXCEPT !.body = convertAndAppendP(s.frags, st.body)]
    ELSE IF s.kind \in {"hasBodyText", "hasP"}
    THEN [st EXCEPT !.body = eachFragment(s.frags, st.body)]
    ELSE st

RECURSIVE eachChildren(_, _, _, _, _)
eachChildren(children, st, htmlDir, t, creationDate) ==
    IF children = <<>> THEN st
    ELSE eachChildren(Tail(children), eachChild(Head(children), st, htmlDir, t, creationDate),
                      htmlDir, t, creationDate)

\* strings.ReplaceAll(parts[1], "_", " ") on the words after the first "_"
RECURSIVE JoinSpace(_)
JoinSpace(ws) ==
    IF ws = <<>> THEN <<>>
    ELSE IF Len(ws) = 1 THEN <<Word(ws[1].w)>>
    ELSE <<Word(ws[1].w), Space>> \o JoinSpace(Tail(ws))

\* the title: the span's text, else the file name after its date-like first part
extractTitle(doc) ==
    IF doc.titleSpan.present THEN TrimSpace(doc.titleSpan.text)
    ELSE LET parts == doc.fileName.parts
         IN  IF Len(parts) > 1 /\ parts[1].dash THEN JoinSpace(Tail(parts)) ELSE <<>>

\* the emptiness test that ends processEntryHTML
emptyResult(text, photos) == text = <<>> /\ Len(photos) = 0

processEntryHTML(doc, htmlDir, defaultTimeZone, t, n) ==
    IF ~doc.openOk THEN Failed("open", n)
    ELSE
    LET entryUUID == newDayOneUUID(n)
        dateStr == doc.header
    IN  IF dateStr = <<>> THEN Failed("nodate", entryUUID)
        ELSE
        LET d == parseAppleDate(dateStr)
        IN  IF d.err THEN Failed("baddate", entryUUID)
            ELSE
            LET entryTitle == extractTitle(doc)
                st0 == [Photos |-> <<>>, mediaToCopy |-> EmptyMap, body |-> <<>>,
                        uuid |-> entryUUID]
                st1 == eachChildren(doc.children, st0, htmlDir, t, d.iso)
                body == convertAndAppendP(<<>>, st1.body)
                text0 == TrimSpace(body)
                text == IF entryTitle # <<>>
                        THEN <<Hash>> \o entryTitle \o <<NLNL>> \o text0
                        ELSE text0
            IN  IF emptyResult(text, st1.Photos) THEN Failed("empty", st1.uuid)
                ELSE [err |-> "",
                      entry |-> [UUID |-> entryUUID, CreationDate |-> d.iso,
                                 ModifiedDate |-> d.iso, Text |-> text,
                                 Starred |-> FALSE, TimeZone |-> defaultTimeZone,
                                 Photos |-> st1.Photos],
                      media |-> st1.mediaToCopy,
                      uuid |-> st1.uuid]

-----------------------------------------------------------------------------
(* Source documents *)

Block(k, fs, is) == [kind |-> k, frags |-> fs, imgs |-> is]

\* Fragments: the markdown the converter yields for them
FragWords(n) == [md |-> <<Space, Word(n), NLNL>>, convOk |-> TRUE]
FragBlank == [md |-> <<Space>>, convOk |-> TRUE]
FragErr == [md |-> <<Word(4)>>, convOk |-> FALSE]

ImgNoSrc == [hasSrc |-> FALSE, src |-> <<>>]
ImgEmptySrc == [hasSrc |-> TRUE, src |-> <<>>]
ImgIn(stem, e) == [hasSrc |-> TRUE, src |-> <<Seg(".."), Seg("Resources"), FileName(stem, e)>>]

\* image elements: a.png and b.JPG resolve; c.mov exists and f.heic does not;
\* d.gif is missing; e.jpeg cannot be read
EntryImgs ==
    { ImgNoSrc, ImgIn("a", ".png"), ImgIn("c", ".mov"), ImgIn("d", ".gif"),
      ImgIn("e", ".jpeg") }
MoreImgs ==
    EntryImgs \cup { ImgEmptySrc, ImgIn("b", ".JPG"), ImgIn("f", ".heic"),
                     [hasSrc |-> TRUE,
                      src |-> <<Seg("."), Seg(".."), Seg("Resources"), Seg("x"), Seg(".."),
                                FileName("a", ".png")>>] }

EntryTextBlocks ==
    { Block("p", <<FragWords(1)>>, <<>>),
      Block("p", <<FragBlank>>, <<>>),
      Block("bodyText", <<FragErr>>, <<>>) }

\* A body is drawn as a flat sequence of items: a text block, an image element
\* (consecutive image elements share one asset grid) or an asset grid without
\* image elements.
TextItem(b) == [item |-> "text", block |-> b, img |-> ImgNoSrc]
ImgItem(i) == [item |-> "img", block |-> Block("assetGrid", <<>>, <<>>), img |-> i]
GridItem == [item |-> "grid", block |-> Block("assetGrid", <<>>, <<>>), img |-> ImgNoSrc]

RECURSIVE Children(_, _)
\* the children of div.pageContainer the items stand for; run: the images of the open grid
Children(items, run) ==
    LET close == IF run = <<>> THEN <<>> ELSE <<Block("assetGrid", <<>>, run)>>
    IN  IF items = <<>> THEN close
        ELSE IF Head(items).item = "img"
             THEN Children(Tail(items), Append(run, Head(items).img))
        ELSE close \o <<Head(items).block>> \o Children(Tail(items), <<>>)

Bodies(texts, imgs, n) ==
    LET Items == {TextItem(b) : b \in texts} \cup {ImgItem(i) : i \in imgs} \cup {GridItem}
    IN  { Children(s, <<>>) : s \in UNION { [1..k -> Items] : k \in 0..n } }

NoSpan == [present |-> FALSE, text |-> <<>>]
Span(txt) == [present |-> TRUE, text |-> txt]
PlainName == [parts |-> <<[w |-> 7, dash |-> FALSE]>>, ext |-> ".html"]
DatedName == [parts |-> <<[w |-> 5, dash |-> TRUE], [w |-> 6, dash |-> FALSE],
                          [w |-> 7, dash |-> FALSE]>>, ext |-> ".html"]
UndatedName == [parts |-> <<[w |-> 6, dash |-> FALSE], [w |-> 7, dash |-> FALSE]>>,
                ext |-> ".HTM"]

GoodHeader == <<"Wednesday", "May 14", "2025">>
BadHeaders == { <<>>, <<"garbage text">>, <<"May 14", "2025">> }

Doc(ok, h, span, fn, body) ==
    [openOk |-> ok, header |-> h, titleSpan |-> span, fileName |-> fn, children |-> body]

MoreTextBlocks ==
    EntryTextBlocks
    \cup { Block("hasBodyText", <<FragWords(2), FragBlank>>, <<>>),
           Block("hasP", <<FragWords(3)>>, <<>>),
           Block("other", <<FragWords(3)>>, <<>>),
           Block("title", <<FragWords(3)>>, <<>>),
           Block("pageHeader", <<FragWords(3)>>, <<>>) }

\* how a document can be titled: no title, a title span, a span holding the text of
\* a placeholder, an empty span, the file name with and without a date-like part
Titles ==
    { <<NoSpan, PlainName>>, <<Span(<<Space, Word(9), Space>>), PlainName>>,
      <<Span(<<Placeholder(0)>>), PlainName>>, <<Span(<<Space>>), DatedName>>,
      <<NoSpan, DatedName>>, <<NoSpan, UndatedName>> }

\* The documents one call is tried on: one that cannot be opened, ones with a bad
\* header, ones with every body within the bounds, and every kind of title,
\* child and image element in a body of one item.
EntryDocs ==
    { Doc(FALSE, GoodHeader, NoSpan, PlainName, <<>>) }
    \cup { Doc(TRUE, h, NoSpan, PlainName, <<Block("p", <<FragWords(1)>>, <<>>)>>)
            : h \in BadHeaders }
    \cup { Doc(TRUE, GoodHeader, ti, PlainName, b)
            : ti \in {NoSpan, Span(<<Space, Word(9), Space>>)},
              b \in Bodies(EntryTextBlocks, EntryImgs, MaxItems) }
    \cup { Doc(TRUE, <<"Tuesday", "Dec 12", "2023">>, ti[1], ti[2], b)
            : ti \in Titles, b \in Bodies(MoreTextBlocks, MoreImgs, 1) }

-----------------------------------------------------------------------------
(* A lone call of processEntryHTML *)

NoTree == [top |-> {}, inner |-> {}]
FlatTree == [top |-> {"Entries", "Resources"}, inner |-> {}]
NoZip == [created |-> FALSE, written |-> FALSE, journal |-> <<>>, media |-> {}]
Pending == Failed("pending", 0)

Idle ==
    /\ tempDir = FALSE
    /\ entriesPath = <<>>
    /\ resourcesPath = <<>>
    /\ journal = <<>>
    /\ allMediaToCopy = EmptyMap
    /\ uuid = 0
    /\ walkLog = <<>>
    /\ outZip = NoZip
    /\ marshals = 0
    /\ exitCode = -1
    /\ fatal = ""
    /\ readDirOk = TRUE

InitEntry ==
    /\ Idle
    /\ pc = "call"
    /\ tree = FlatTree
    /\ arg \in EntryDocs
    /\ ret = Pending

CallEntry ==
    /\ pc = "call"
    /\ ret' = processEntryHTML(arg, tempExtractDir \o <<Seg("Entries")>>, "UTC", tree, uuid)
    /\ uuid' = ret'.uuid
    /\ pc' = "ret"
    /\ UNCHANGED <<tempDir, tree, entriesPath, resourcesPath, journal, allMediaToCopy,
                   walkLog, outZip, marshals, exitCode, fatal, readDirOk, arg>>

NextEntry == CallEntry

SpecEntry == InitEntry /\ [][NextEntry]_vars

-----------------------------------------------------------------------------
(* main: what the walker can meet under Entries *)

Para == Block("p", <<FragWords(1)>>, <<>>)
Grid(imgs) == Block("assetGrid", <<>>, imgs)
ImgA == ImgIn("a", ".png")

RunDocs ==
    { Doc(TRUE, GoodHeader, Span(<<Word(9)>>), PlainName, <<Para>>),
      Doc(TRUE, GoodHeader, NoSpan, PlainName, <<Grid(<<ImgA>>)>>),
      Doc(TRUE, GoodHeader, NoSpan, UndatedName, <<Grid(<<ImgA, ImgA>>), Para>>),
      Doc(TRUE, GoodHeader, NoSpan, PlainName,
          <<Para, Grid(<<ImgIn("d", ".gif"), ImgIn("b", ".JPG")>>)>>),
      Doc(TRUE, GoodHeader, NoSpan, PlainName, <<Grid(<<ImgIn("d", ".gif")>>)>>),
      Doc(TRUE, GoodHeader, NoSpan, DatedName, <<>>),
      Doc(TRUE, <<"garbage text">>, NoSpan, PlainName, <<Para>>),
      Doc(TRUE, <<>>, Span(<<Word(9)>>), PlainName, <<Para, Grid(<<ImgA>>)>>),
      Doc(FALSE, GoodHeader, NoSpan, PlainName, <<>>) }

NoDoc == Doc(FALSE, <<>>, NoSpan, PlainName, <<>>)

\* one call of the walk callback: a path that cannot be accessed, a directory,
\* a file (dir: where it lies under Entries)
WalkItem(e, isdir, sub, ext, doc) ==
    [walkErr |-> e, isDir |-> isdir, dir |-> sub, ext |-> ext, doc |-> doc]
WalkItems ==
    { WalkItem(TRUE, FALSE, <<>>, "", NoDoc),
      WalkItem(FALSE, TRUE, <<>>, "", NoDoc),
      WalkItem(FALSE, FALSE, <<>>, ".txt", NoDoc) }
    \cup { WalkItem(FALSE, FALSE, <<>>, d.fileName.ext, d) : d \in RunDocs }
    \cup { WalkItem(FALSE, FALSE, <<Seg("sub")>>, ".html",
                    Doc(TRUE, GoodHeader, NoSpan, PlainName, <<Para, Grid(<<ImgA>>)>>)) }

-----------------------------------------------------------------------------
(* main *)

\* root detection: entriesPath and resourcesPath
detectRoots_NoFallback(t, ok) ==
    IF ok /\ Cardinality(t.top) = 1 /\ \A n \in t.top : IsDirName(n)
    THEN LET name == CHOOSE n \in t.top : TRUE
         IN  [entries |-> tempExtractDir \o <<Seg(name), Seg("Entries")>>,
              resources |-> tempExtractDir \o <<Seg(name), Seg("Resources")>>]
    ELSE [entries |-> tempExtractDir \o <<Seg("Entries")>>,
          resources |-> tempExtractDir \o <<Seg("Resources")>>]
detectRoots(t, ok) ==
    LET flat == [entries |-> tempExtractDir \o <<Seg("Entries")>>,
                 resources |-> tempExtractDir \o <<Seg("Resources")>>]
        filesInTemp == t.top
    IN  IF ok /\ Cardinality(filesInTemp) = 1 /\ \A n \in filesInTemp : IsDirName(n)
        THEN LET potentialRootFolderName == CHOOSE n \in filesInTemp : TRUE
                 testEntriesPath ==
                     tempExtractDir \o <<Seg(potentialRootFolderName), Seg("Entries")>>
             IN  IF DirExists(t, testEntriesPath)
                 THEN [entries |-> testEntriesPath,
                       resources |-> tempExtractDir
                                     \o <<Seg(potentialRootFolderName), Seg("Resources")>>]
                 ELSE flat
        ELSE flat

\* the merge of one entry's media into allMediaToCopy
mergeMedia(all, entryMedia) ==
    [x \in DOMAIN all \cup DOMAIN entryMedia |->
        IF x \in DOMAIN entryMedia THEN entryMedia[x] ELSE all[x]]

\* the test of main on the entry processEntryHTML returned
isEmptyEntry(entry) == entry.Text = <<>> /\ Len(entry.Photos) = 0

\* what the walk callback does with the result r of processEntryHTML
\* w = [journal, media]
onEntry_AppendAlways(w, r) ==
    [journal |-> Append(w.journal, r.entry), media |-> mergeMedia(w.media, r.media)]
onEntry_Prepend(w, r) ==
    IF r.err # "" THEN w
    ELSE IF r.entry.Text = <<>> /\ Len(r.entry.Photos) = 0 THEN w
    ELSE [journal |-> <<r.entry>> \o w.journal, media |-> mergeMedia(w.media, r.media)]
onEntry(w, r) ==
    IF r.err # "" THEN w
    ELSE IF isEmptyEntry(r.entry) THEN w
    ELSE [journal |-> Append(w.journal, r.entry), media |-> mergeMedia(w.media, r.media)]

\* is the file name one of a document
isHTML(ext) == ToLower(ext) \in {".html", ".htm"}

\* the callback given to filepath.WalkDir, on the item it, with
\* st = [journal, media, uuid]; err: the error it returns is not nil
walkFn_ReturnProcErr(it, st, root, t) ==
    LET r == processEntryHTML(it.doc, root \o it.dir, "UTC", t, st.uuid)
        w == onEntry([journal |-> st.journal, media |-> st.media], r)
    IN  IF ~it.walkErr /\ ~it.isDir /\ isHTML(it.ext)
        THEN [journal |-> w.journal, media |-> w.media, uuid |-> r.uuid,
              err |-> r.err # "", r |-> r]
        ELSE [journal |-> st.journal, media |-> st.media, uuid |-> st.uuid,
              err |-> it.walkErr, r |-> Pending]
walkFn_SkipWalkErr(it, st, root, t) ==
    LET r == processEntryHTML(it.doc, root \o it.dir, "UTC", t, st.uuid)
        w == onEntry([journal |-> st.journal, media |-> st.media], r)
    IN  IF ~it.walkErr /\ ~it.isDir /\ isHTML(it.ext)
        THEN [journal |-> w.journal, media |-> w.media, uuid |-> r.uuid,
              err |-> FALSE, r |-> r]
        ELSE [journal |-> st.journal, media |-> st.media, uuid |-> st.uuid,
              err |-> FALSE, r |-> Pending]
walkFn(it, st, root, t) ==
    IF it.walkErr
    THEN [journal |-> st.journal, media |-> st.media, uuid |-> st.uuid,
          err |-> TRUE, r |-> Pending]
    ELSE IF it.isDir
    THEN [journal |-> st.journal, media |-> st.media, uuid |-> st.uuid,
          err |-> FALSE, r |-> Pending]
    ELSE IF isHTML(it.ext)
    THEN LET r == processEntryHTML(it.doc, root \o it.dir, "UTC", t, st.uuid)
             w == onEntry([journal |-> st.journal, media |-> st.media], r)
         IN  [journal |-> w.journal, media |-> w.media, uuid |-> r.uuid,
              err |-> FALSE, r |-> r]
    ELSE [journal |-> st.journal, media |-> st.media, uuid |-> st.uuid,
          err |-> FALSE, r |-> Pending]

Exit(code, cause) ==
    /\ pc' = "exited"
    /\ exitCode' = code
    /\ fatal' = cause

Init ==
    /\ Idle
    /\ pc = "start"
    /\ tree = NoTree
    /\ arg = NoDoc
    /\ ret = Pending

\* flag parsing: -i and -o are required
Usage ==
    /\ pc = "start"
    /\ Exit(1, "usage")
    /\ UNCHANGED <<tempDir, tree, entriesPath, resourcesPath, journal, allMediaToCopy,
                   uuid, walkLog, outZip, marshals, readDirOk, arg, ret>>

\* os.MkdirTemp, and the deferred removal is registered
MkdirTemp ==
    /\ pc = "start"
    /\ \/ /\ tempDir' = TRUE
          /\ pc' = "unzip"
          /\ UNCHANGED <<exitCode, fatal>>
       \/ /\ Exit(1, "mkdirtemp")
          /\ UNCHANGED tempDir
    /\ UNCHANGED <<tree, entriesPath, resourcesPath, journal, allMediaToCopy,
                   uuid, walkLog, outZip, marshals, readDirOk, arg, ret>>

\* unzip into the temporary directory
Unzip ==
    /\ pc = "unzip"
    /\ \E t \in Trees :
          /\ tree' = t
          /\ \/ /\ pc' = "detect"
                /\ UNCHANGED <<exitCode, fatal>>
             \/ Exit(1, "unzip")
    /\ UNCHANGED <<tempDir, entriesPath, resourcesPath, journal, allMediaToCopy,
                   uuid, walkLog, outZip, marshals, readDirOk, arg, ret>>

\* determine the base paths
Detect ==
    /\ pc = "detect"
    /\ \E ok \in BOOLEAN :
          LET roots == detectRoots(tree, ok)
          IN  /\ readDirOk' = ok
              /\ entriesPath' = roots.entries
              /\ resourcesPath' = roots.resources
    /\ pc' = "check"
    /\ UNCHANGED <<tempDir, tree, journal, allMediaToCopy, uuid, walkLog, outZip,
                   marshals, exitCode, fatal, arg, ret>>

\* the Entries folder must exist; the journal and the media map are created
CheckEntries ==
    /\ pc = "check"
    /\ IF ~DirExists(tree, entriesPath)
       THEN /\ Exit(1, "entries")
            /\ UNCHANGED <<journal, allMediaToCopy>>
       ELSE /\ journal' = <<>>
            /\ allMediaToCopy' = EmptyMap
            /\ pc' = "walk"
            /\ UNCHANGED <<exitCode, fatal>>
    /\ UNCHANGED <<tempDir, tree, entriesPath, resourcesPath, uuid, walkLog, outZip,
                   marshals, readDirOk, arg, ret>>

\* filepath.WalkDir calls the callback on the next path
WalkFile ==
    /\ pc = "walk"
    /\ Len(walkLog) < MaxFiles
    /\ \E it \in WalkItems :
          LET w == walkFn(it, [journal |-> journal, media |-> allMediaToCopy, uuid |-> uuid],
                          entriesPath, tree)
          IN  /\ journal' = w.journal
              /\ allMediaToCopy' = w.media
              /\ uuid' = w.uuid
              /\ walkLog' = Append(walkLog, [item |-> it, r |-> w.r])
              /\ IF w.err
                 THEN Exit(1, "walk")
                 ELSE UNCHANGED <<pc, exitCode, fatal>>
    /\ UNCHANGED <<tempDir, tree, entriesPath, resourcesPath, outZip, marshals,
                   readDirOk, arg, ret>>

\* filepath.WalkDir returns nil: every path was visited
WalkDone ==
    /\ pc = "walk"
    /\ pc' = "package"
    /\ UNCHANGED <<tempDir, tree, entriesPath, resourcesPath, journal, allMediaToCopy,
                   uuid, walkLog, outZip, marshals, exitCode, fatal, readDirOk, arg, ret>>

\* the destinations of the media files createDayOneZip copied, when copying
\* the files at the paths in failed fails
copiedMedia(media, failed) == { media[x] : x \in DOMAIN media \ failed }

\* createDayOneZip and the end of main
Package ==
    /\ pc = "package"
    /\ \/ \* os.Create fails
          /\ Exit(1, "zip")
          /\ UNCHANGED <<outZip, marshals>>
       \/ \* Journal.json cannot be created in the archive
          /\ outZip' = [outZip EXCEPT !.created = TRUE]
          /\ Exit(1, "zip")
          /\ UNCHANGED marshals
       \/ \* Journal.json cannot be written
          /\ outZip' = [outZip EXCEPT !.created = TRUE]
          /\ marshals' = marshals + 1
          /\ Exit(1, "zip")
       \/ \E failed \in SUBSET DOMAIN allMediaToCopy :
             /\ outZip' = [created |-> TRUE, written |-> TRUE, journal |-> journal,
                           media |-> copiedMedia(allMediaToCopy, failed)]
             /\ marshals' = marshals + 1
             /\ pc' = "return"
             /\ UNCHANGED <<exitCode, fatal>>
    /\ UNCHANGED <<tempDir, tree, entriesPath, resourcesPath, journal, allMediaToCopy,
                   uuid, walkLog, readDirOk, arg, ret>>

\* main returns: the deferred os.RemoveAll runs, and may fail
Return ==
    /\ pc = "return"
    /\ tempDir' \in {FALSE, TRUE}
    /\ Exit(0, "")
    /\ UNCHANGED <<tree, entriesPath, resourcesPath, journal, allMediaToCopy,
                   uuid, walkLog, outZip, marshals, readDirOk, arg, ret>>

Next ==
    \/ Usage
    \/ MkdirTemp
    \/ Unzip
    \/ Detect
    \/ CheckEntries
    \/ WalkFile
    \/ WalkDone
    \/ Package
    \/ Return

Spec == Init /\ [][Next]_vars

-----------------------------------------------------------------------------
(* Properties *)

Range(f) == { f[x] : x \in DOMAIN f }
AllowedTypes == {"png", "jpg", "jpeg", "gif"}

\* the calls of the walk callback that handed a document to processEntryHTML,
\* and those among them that returned an Entry
IsDocVisit(v) == ~v.item.walkErr /\ ~v.item.isDir /\ isHTML(v.item.ext)
Parsed(v) == IsDocVisit(v) /\ v.r.err = ""
FailedDoc(v) == IsDocVisit(v) /\ v.r.err # ""

\* the Entries the calls in log returned, in the order of the calls
RECURSIVE ParsedEntries(_)
ParsedEntries(log) ==
    IF log = <<>> THEN <<>>
    ELSE (IF Parsed(Head(log)) THEN <<Head(log).r.entry>> ELSE <<>>)
         \o ParsedEntries(Tail(log))

\* C1: every Entry appended to the Journal has a non-empty body text or at
\* least one Photo.
C1_NoEmptyEntry ==
    \A i \in 1..Len(journal) :
        journal[i].Text # <<>> \/ Len(journal[i].Photos) > 0

\* C1 witness: the walker met a document that came out empty and one that
\* carries photos only, and the Journal holds the second alone.
C1_Witness ==
    /\ \E i \in 1..Len(walkLog) : walkLog[i].r.err = "empty"
    /\ Len(journal) = 1
    /\ Len(journal[1].Photos) > 0

\* C2: in every Entry processEntryHTML returns, every placeholder token of the
\* body text names the identifier of a Photo of that Entry.
C2_PlaceholdersNamePhotos ==
    (pc = "ret" /\ ret.err = "") =>
        \A i \in 1..Len(ret.entry.Text) :
            ret.entry.Text[i].k = "ph" =>
                \E j \in 1..Len(ret.entry.Photos) :
                    ret.entry.Photos[j].Identifier = ret.entry.Text[i].v

\* The placeholders processEntryHTML itself writes do name Photos of the Entry:
\* outside the heading, the placeholders of the body are the identifiers of
\* the Photos, in order.
RECURSIVE PlaceholderIds(_)
PlaceholderIds(text) ==
    IF text = <<>> THEN <<>>
    ELSE (IF Head(text).k = "ph" THEN <<Head(text).v>> ELSE <<>>)
         \o PlaceholderIds(Tail(text))
RECURSIVE AfterHeading(_)
AfterHeading(text) ==
    IF text = <<>> THEN <<>>
    ELSE IF Head(text).k = "nl" THEN Tail(text) ELSE AfterHeading(Tail(text))
WrittenPlaceholdersNamePhotos ==
    (pc = "ret" /\ ret.err = "") =>
        LET text == ret.entry.Text
            body == IF text # <<>> /\ Head(text).k = "h" THEN AfterHeading(text) ELSE text
        IN  PlaceholderIds(body)
              = [j \in 1..Len(ret.entry.Photos) |-> ret.entry.Photos[j].Identifier]

\* C3: when two documents reference the same source image file, the run holds
\* two Photos with distinct identifiers and two CopyInstructions, one per Photo.
C3_NoCrossEntryDedup ==
    \A i, j \in 1..Len(walkLog) :
        (i < j /\ Parsed(walkLog[i]) /\ Parsed(walkLog[j])) =>
            \A x \in DOMAIN walkLog[i].r.media \cap DOMAIN walkLog[j].r.media :
                /\ walkLog[i].r.media[x].id # walkLog[j].r.media[x].id
                /\ {walkLog[i].r.media[x], walkLog[j].r.media[x]}
                      \subseteq Range(allMediaToCopy)

\* the image elements of a document, in document order
RECURSIVE DocImgs(_)
DocImgs(children) ==
    IF children = <<>> THEN <<>>
    ELSE (IF Head(children).kind = "assetGrid" THEN Head(children).imgs ELSE <<>>)
         \o DocImgs(Tail(children))

\* an image reference with a src whose lowercased extension is not an image's
Disallowed(img) ==
    /\ img.hasSrc
    /\ img.src # <<>>
    /\ ToLower(Last(img.src).ext) \notin {".png", ".jpg", ".jpeg", ".gif"}

\* an image reference that resolves to a Photo
Resolves(img, htmlDir, t) ==
    /\ img.hasSrc
    /\ img.src # <<>>
    /\ ~Disallowed(img)
    /\ Stat(t, CleanJoin(htmlDir, img.src)) = "ok"

RECURSIVE Keep(_, _, _, _)
\* the image elements among imgs that satisfy / do not satisfy Disallowed or Resolves
Keep(imgs, what, htmlDir, t) ==
    IF imgs = <<>> THEN <<>>
    ELSE (IF \/ what = "allowed" /\ ~Disallowed(Head(imgs))
             \/ what = "resolving" /\ Resolves(Head(imgs), htmlDir, t)
          THEN <<Head(imgs)>> ELSE <<>>)
         \o Keep(Tail(imgs), what, htmlDir, t)

\* the document without the image elements that are not kept
Without(doc, what, htmlDir, t) ==
    [doc EXCEPT !.children =
        [i \in 1..Len(doc.children) |->
            [doc.children[i] EXCEPT !.imgs = Keep(@, what, htmlDir, t)]]]

EntryDir == tempExtractDir \o <<Seg("Entries")>>

\* C4: an image reference whose lowercased extension is not png, jpg, jpeg or
\* gif adds no Photo, no CopyInstruction and no placeholder, whether or not
\* the file exists: the call returns what it returns for the document without
\* these references, no Photo has another type and no CopyInstruction another
\* extension.
C4_DisallowedExtensionAddsNothing ==
    pc = "ret" =>
        /\ ret = processEntryHTML(Without(arg, "allowed", EntryDir, tree), EntryDir,
                                  "UTC", tree, 0)
        /\ \A j \in 1..Len(ret.entry.Photos) : ret.entry.Photos[j].Type \in AllowedTypes
        /\ \A x \in DOMAIN ret.media :
              /\ ~Disallowed([hasSrc |-> TRUE, src |-> x])
              /\ ret.media[x].ext \in {".png", ".jpg", ".jpeg", ".gif"}

\* C4 witness: a document referencing c.mov, which exists, after an image that
\* resolves, came back with exactly the one Photo.
C4_Witness ==
    /\ pc = "ret"
    /\ ret.err = ""
    /\ Len(ret.entry.Photos) = 1
    /\ \E i \in 1..Len(arg.children) :
          /\ Len(arg.children[i].imgs) >= 2
          /\ Resolves(arg.children[i].imgs[1], EntryDir, tree)
          /\ Disallowed(arg.children[i].imgs[2])
          /\ Stat(tree, CleanJoin(EntryDir, arg.children[i].imgs[2].src)) = "ok"

\* the header of a document yields a date
HeaderOk(doc) == doc.openOk /\ doc.header # <<>> /\ ~parseAppleDate(doc.header).err

\* C5: whatever documents fail parsing, the run is not aborted by them and
\* ends by writing the archive; the Journal holds exactly the Entries of the
\* documents that parsed, and a failed document adds nothing to the Journal
\* or to the merged media map.
C5_FailedDocumentsAreSkipped ==
    /\ journal = ParsedEntries(walkLog)
    /\ DOMAIN allMediaToCopy
         = UNION { DOMAIN walkLog[i].r.media : i \in {k \in 1..Len(walkLog) : Parsed(walkLog[k])} }
    /\ \A i \in 1..Len(walkLog) :
          (IsDocVisit(walkLog[i]) /\ ~HeaderOk(walkLog[i].item.doc)) => FailedDoc(walkLog[i])
    /\ \A i \in 1..Len(walkLog) :
          FailedDoc(walkLog[i]) => (pc = "exited" => fatal \in {"", "zip"} \/ i < Len(walkLog))
    /\ fatal = "walk" => walkLog[Len(walkLog)].item.walkErr
    /\ (pc = "exited" /\ exitCode = 0) =>
          outZip.written /\ outZip.journal = ParsedEntries(walkLog)

\* C5 witness: a run over a document with an unparseable header and then one
\* that parses ended with exit code 0 and the second document's Entry written.
C5_Witness ==
    /\ pc = "exited"
    /\ exitCode = 0
    /\ Len(walkLog) = 2
    /\ walkLog[1].r.err = "baddate"
    /\ Parsed(walkLog[2])
    /\ outZip.written
    /\ Len(outZip.journal) = 1

\* C5 witness: every document failed, and the run still wrote the archive.
C5_AllFailed ==
    /\ pc = "exited"
    /\ exitCode = 0
    /\ Len(walkLog) = 2
    /\ \A i \in 1..2 : FailedDoc(walkLog[i])
    /\ outZip.written
    /\ outZip.journal = <<>>

\* the position of the Photo with identifier id in the Entry r returned, 0 if none
PhotoIndex(r, id) ==
    IF \E j \in 1..Len(r.entry.Photos) : r.entry.Photos[j].Identifier = id
    THEN CHOOSE j \in 1..Len(r.entry.Photos) : r.entry.Photos[j].Identifier = id
    ELSE 0

\* two results of processEntryHTML are the same up to the identifiers minted
SameUpToIds(r1, r2) ==
    /\ r1.err = r2.err
    /\ r1.entry.UUID = r2.entry.UUID
    /\ r1.entry.CreationDate = r2.entry.CreationDate
    /\ Len(r1.entry.Photos) = Len(r2.entry.Photos)
    /\ \A j \in 1..Len(r1.entry.Photos) :
          [r1.entry.Photos[j] EXCEPT !.Identifier = 0]
            = [r2.entry.Photos[j] EXCEPT !.Identifier = 0]
    /\ Len(r1.entry.Text) = Len(r2.entry.Text)
    /\ \A i \in 1..Len(r1.entry.Text) :
          LET a == r1.entry.Text[i]
              b == r2.entry.Text[i]
          IN  /\ a.k = b.k
              /\ a.k # "ph" => a.v = b.v
              /\ a.k = "ph" => PhotoIndex(r1, a.v) = PhotoIndex(r2, b.v)
    /\ DOMAIN r1.media = DOMAIN r2.media
    /\ \A x \in DOMAIN r1.media :
          /\ r1.media[x].ext = r2.media[x].ext
          /\ PhotoIndex(r1, r1.media[x].id) = PhotoIndex(r2, r2.media[x].id)

AnyFailingRef(doc) ==
    \E i \in 1..Len(DocImgs(doc.children)) : ~Resolves(DocImgs(doc.children)[i], EntryDir, tree)

\* C6 as stated: a failed image reference does not fail the entry, and the
\* Entry returned holds the text blocks and the photos that resolved.
C6_FailedReferenceNeverFailsEntry ==
    (pc = "ret" /\ HeaderOk(arg) /\ AnyFailingRef(arg)) =>
        /\ ret.err = ""
        /\ SameUpToIds(ret, processEntryHTML(Without(arg, "resolving", EntryDir, tree),
                                             EntryDir, "UTC", tree, 0))

\* C6 as amended: a failed image reference drops only that photo. The call
\* returns, up to the identifiers minted, what it returns for the document
\* without the failed references: the Entry with the text blocks and the
\* photos that resolved, in order - or the empty-entry error when the document
\* has no title, no text and no photo that resolved.
C6_FailedReferenceDropsOnlyThatPhoto ==
    (pc = "ret" /\ HeaderOk(arg)) =>
        LET kept == Keep(DocImgs(arg.children), "resolving", EntryDir, tree)
        IN  /\ SameUpToIds(ret, processEntryHTML(Without(arg, "resolving", EntryDir, tree),
                                                 EntryDir, "UTC", tree, 0))
            /\ ret.err \in {"", "empty"}
            /\ ret.err = "" =>
                  /\ Len(ret.entry.Photos) = Len(kept)
                  /\ \A j \in 1..Len(kept) :
                        ret.entry.Photos[j].MD5 = Last(kept[j].src).stem
            /\ ret.err = "empty" => kept = <<>> /\ extractTitle(arg) = <<>>
            /\ (kept # <<>> \/ extractTitle(arg) # <<>>) => ret.err = ""

\* C6 witness: a grid whose second image is missing, between two that resolve,
\* next to a text block: the Entry holds both photos and the text.
C6_Witness ==
    /\ pc = "ret"
    /\ ret.err = ""
    /\ Len(ret.entry.Photos) = 2
    /\ \E i \in 1..Len(ret.entry.Text) : ret.entry.Text[i].k = "txt"
    /\ \E i \in 1..Len(arg.children) :
          /\ Len(arg.children[i].imgs) = 3
          /\ Resolves(arg.children[i].imgs[1], EntryDir, tree)
          /\ ~Resolves(arg.children[i].imgs[2], EntryDir, tree)
          /\ Resolves(arg.children[i].imgs[3], EntryDir, tree)

\* C7: the temporary extraction directory is removed on every exit path:
\* the process never terminates with the directory still present.
C7_TempDirRemovedOnEveryExit == pc = "exited" => ~tempDir

C8_Recovered ==
    /\ pc = "exited"
    /\ exitCode = 0
    /\ \E i \in 1..Len(walkLog) : FailedDoc(walkLog[i])
    /\ outZip.media # Range(allMediaToCopy)

\* C9: the Journal starts empty, gets one Entry per document that parsed, in
\* the order of the walk, and is serialized once, after the walk: packaging
\* does not start during the walk, and the Journal written is the final one.
C9_JournalLifecycle ==
    /\ pc \in {"start", "unzip", "detect", "check"} => journal = <<>>
    /\ journal = ParsedEntries(walkLog)
    /\ marshals <= 1
    /\ (outZip.created \/ marshals > 0) => pc \in {"return", "exited"}
    /\ outZip.written => marshals = 1 /\ outZip.journal = journal
    /\ pc = "return" => marshals = 1 /\ outZip.written
    /\ (pc = "exited" /\ exitCode = 0) => marshals = 1 /\ outZip.written

\* C9 witness: two documents parsed, and the run ended having written both
\* Entries, the first document's first.
C9_Witness ==
    /\ pc = "exited"
    /\ exitCode = 0
    /\ marshals = 1
    /\ Len(walkLog) = 2
    /\ Len(outZip.journal) = 2
    /\ outZip.journal[1] = walkLog[1].r.entry
    /\ outZip.journal[2] = walkLog[2].r.entry
    /\ outZip.journal[1].Text # outZip.journal[2].Text

FlatRoots ==
    [entries |-> tempExtractDir \o <<Seg("Entries")>>,
     resources |-> tempExtractDir \o <<Seg("Resources")>>]
RootsIn(d) ==
    [entries |-> tempExtractDir \o <<Seg(d), Seg("Entries")>>,
     resources |-> tempExtractDir \o <<Seg(d), Seg("Resources")>>]
\* the extraction root holds one item, a directory
SingleDir(t) == Cardinality(t.top) = 1 /\ \A n \in t.top : IsDirName(n)
TheDir(t) == CHOOSE n \in t.top : TRUE

\* C10 as stated: with exactly one top-level directory the roots are that
\* directory's Entries and Resources, in every other case those under the
\* extraction root; a run goes on only with its Entries directory present.
C10_SingleDirectoryIsTheRoot ==
    LET roots == IF SingleDir(tree) THEN RootsIn(TheDir(tree)) ELSE FlatRoots
    IN  /\ (readDirOk /\ pc \in {"walk", "package", "return"}) =>
              /\ entriesPath = roots.entries
              /\ resourcesPath = roots.resources
              /\ DirExists(tree, roots.entries)
        /\ (readDirOk /\ fatal = "entries") => ~DirExists(tree, roots.entries)

\* C10 as amended: when the extraction root lists exactly one item, a directory
\* that holds Entries, the roots are that directory's Entries and Resources; in
\* every other case (several items, a file, a directory without Entries, a
\* listing that failed) they are those under the extraction root; and when the
\* Entries directory so selected does not exist the run fails fatally.
C10_RootDetection ==
    (pc \in {"check", "walk", "package", "return"} \/ (pc = "exited" /\ entriesPath # <<>>)) =>
        LET nested == /\ readDirOk
                      /\ SingleDir(tree)
                      /\ DirExists(tree, RootsIn(TheDir(tree)).entries)
            roots == IF nested THEN RootsIn(TheDir(tree)) ELSE FlatRoots
        IN  /\ entriesPath = roots.entries
            /\ resourcesPath = roots.resources
            /\ pc # "check" => (fatal = "entries" <=> ~DirExists(tree, entriesPath))

\* C10 witness: the archive holds the single directory Entries, and the walk
\* runs on the roots under the extraction root.
C10_Witness ==
    /\ pc = "walk"
    /\ readDirOk
    /\ tree.top = {"Entries"}
    /\ entriesPath = FlatRoots.entries

\* C10 witness: the archive holds the single directory Root with Entries in it,
\* and the walk runs on Root's Entries.
C10_Nested ==
    /\ pc = "walk"
    /\ tree.top = {"Root"}
    /\ entriesPath = RootsIn("Root").entries

\* the CopyInstruction destination of a Photo: photos/<Identifier>.<Type>
PhotoDestination(photo, dest) ==
    /\ dest.dir = "photos"
    /\ dest.id = photo.Identifier
    /\ TrimDot(dest.ext) = photo.Type

\* createDayOneZip has written the archive
ArchiveWritten == outZip.written

\* C11: at the moment the output archive is written, for every Photo in every
\* Entry of the Journal the merged media map contains a CopyInstruction whose
\* destination is photos/<that Photo's identifier>.<that Photo's format>.
C11_EveryPhotoHasCopyInstruction ==
    (pc = "package" \/ ArchiveWritten) =>
        \A i \in 1..Len(journal) :
            \A k \in 1..Len(journal[i].Photos) :
                \E x \in DOMAIN allMediaToCopy :
                    PhotoDestination(journal[i].Photos[k], allMediaToCopy[x])

\* the converse, which the code keeps: every CopyInstruction of the merged map
\* is the destination of a Photo of an Entry of the Journal.
CopyInstructionsNamePhotos ==
    \A x \in DOMAIN allMediaToCopy :
        \E i \in 1..Len(journal) :
            \E k \in 1..Len(journal[i].Photos) :
                PhotoDestination(journal[i].Photos[k], allMediaToCopy[x])

\* the merged map holds one CopyInstruction for each source path, the one of
\* the Photo minted last for it: the Photos without one are those whose source
\* file a later image reference names again.
OnlyLastReferenceKept ==
    (pc = "package" \/ ArchiveWritten) =>
        LET photos == UNION { Range(journal[i].Photos) : i \in 1..Len(journal) }
            kept == { ph \in photos : \E x \in DOMAIN allMediaToCopy :
                                         PhotoDestination(ph, allMediaToCopy[x]) }
        IN  /\ Cardinality(kept) = Cardinality(DOMAIN allMediaToCopy)
            /\ \A lost \in photos \ kept :
                  \E ph \in kept : /\ ph.Identifier > lost.Identifier
                                   /\ ph.MD5 = lost.MD5

====
